---- MODULE Spec2Model ----
(***************************************************************************)
(* Model of the COVID-19 dashboard of src/app.py: the memoized Snapshot    *)
(* Builder load_and_process_data, the process-wide PROCESSED_DATA / DATES  *)
(* it fills at startup, and the three Dash callbacks toggle_animation,     *)
(* update_time_slider and update_map.                                      *)
(*                                                                         *)
(* Representation.                                                         *)
(*  - A calendar day is a positive integer (day 1 is the earliest day of   *)
(*    the file); the literal '2024-06-17' of the date filter is CUTOFF.    *)
(*  - A row of the CSV is a record [date, iso_code, location, continent,   *)
(*    dpm]; dpm is total_deaths_per_million.  An absent number is the      *)
(*    empty tuple <<>> and a present number v is <<v>>; an absent          *)
(*    continent is the string "NaN", which is what read_csv turns into NaN.*)
(*  - The DataFrame is the sequence of its rows.                           *)
(*  - n_clicks = 0 stands for Dash's n_clicks = None (no click yet).       *)
(***************************************************************************)
EXTENDS Integers, Sequences, FiniteSets, TLC

VARIABLES
    raw,             \* rows of data/covid_data.csv
    readable,        \* whether read_csv can read the file
    maxDate,         \* the date literal of the date filter (line 41)
    excluded,        \* the continent literal of the second filter (line 42)
    cache,           \* the filesystem cache: key -> [value, expires, builtWith]
    now,             \* wall clock, seconds
    advances,        \* number of clock steps taken so far
    phase,           \* "down", "up" (serving) or "aborted" (startup raised)
    PROCESSED_DATA,  \* module-level dict: Timestamp -> snapshot
    DATES,           \* module-level list of dates
    ran,             \* whether the last call of load_and_process_data ran its body
    disabled,        \* interval-component.disabled
    slider,          \* time-slider.value
    n_clicks,        \* play-button.n_clicks
    label,           \* play-button.children
    figure,          \* covid-map.figure: what update_map last returned
    event,           \* the step that ran last
    pre,             \* slider and disabled before the last callback, the value
                     \* it received and whether it raised
    preCache         \* the cache as the last startup found it

vars == <<raw, readable, maxDate, excluded, cache, now, advances, phase,
          PROCESSED_DATA, DATES, ran, disabled, slider, n_clicks, label,
          figure, event, pre, preCache>>

fileVars == <<raw, readable>>
codeVars == <<maxDate, excluded>>
uiVars == <<disabled, slider, n_clicks, label, figure>>

(***************************************************************************)
(* Bounds of the model.                                                    *)
(***************************************************************************)
MaxRows == 3        \* rows of the CSV in the builder's specification
MaxDay == 6         \* days 1..MaxDay occur in the CSV
MaxClicks == 3      \* clicks of the play button
MaxAdvances == 3    \* steps of the clock

(***************************************************************************)
(* Program constants.                                                      *)
(***************************************************************************)
TIMEOUT == 3600     \* TIMEOUT = 3600
CUTOFF == 5         \* the day standing for '2024-06-17'

Antarctica == "Antarctica"
NaN == "NaN"
Absent == <<>>
PlayLabel == "Play"
PauseLabel == "Pause"

(***************************************************************************)
(* The input file: the rows a CSV may hold.                                *)
(***************************************************************************)
\* (iso_code, location, continent) of the regions of the file.  The third
\* is an aggregate-style row: its location carries a continent's name and
\* its own continent field is empty, as OWID's aggregate rows are.
RegionUSA == <<"USA", "United States", "North America">>
RegionATA == <<"ATA", Antarctica, Antarctica>>
RegionAggregate == <<"OWID_ANT", Antarctica, NaN>>
Regions == { RegionUSA, RegionATA, RegionAggregate }

Days == 1..MaxDay

\* total_deaths_per_million as read_csv returns it: absent, or a number.
DpmCells == { Absent, <<0>>, <<5>> }

Row(d, g, m) ==
    [date |-> d, iso_code |-> g[1], location |-> g[2], continent |-> g[3],
     dpm |-> m]

Rows == { Row(d, g, m) : d \in Days, g \in Regions, m \in DpmCells }

SeqsUpTo(S, n) == UNION { [1..k -> S] : k \in 0..n }

(***************************************************************************)
(* load_and_process_data, lines 33-56.                                     *)
(***************************************************************************)
\* df[df['date'] <= '2024-06-17']
FilterDate(df, D) == SelectSeq(df, LAMBDA r : r.date <= D)

\* the continent filter left out
FilterContinentSkipped(df, R) == df

\* df[df['continent'] != 'Antarctica']; NaN != 'Antarctica' is True in pandas
FilterContinent(df, R) == SelectSeq(df, LAMBDA r : r.continent # R)

\* df['date'].unique(): the distinct dates in order of first appearance
RECURSIVE Unique(_)
Unique(s) ==
    IF s = <<>> THEN <<>>
    ELSE LET init == Unique(SubSeq(s, 1, Len(s) - 1))
             x == s[Len(s)]
         IN  IF \E i \in 1..Len(init) : init[i] = x THEN init
             ELSE Append(init, x)

\* insertion of x into the ascending sequence s
RECURSIVE Insert(_, _)
Insert(x, s) ==
    IF s = <<>> THEN <<x>>
    ELSE IF x <= Head(s) THEN <<x>> \o s
    ELSE <<Head(s)>> \o Insert(x, Tail(s))

\* sorted(...)
RECURSIVE sorted(_)
sorted(s) == IF s = <<>> THEN <<>> ELSE Insert(Head(s), sorted(Tail(s)))

DateColumn(df) == [i \in 1..Len(df) |-> df[i].date]

\* fillna(0) in place of fillna(-1)
fillna_zero(cell) == IF cell = Absent THEN <<0>> ELSE cell

\* Series.fillna(-1) on one cell
fillna(cell) == IF cell = Absent THEN <<-1>> ELSE cell

\* df['date'] <= date in place of df['date'] == date
date_data_upto(df, date) ==
    LET part == SelectSeq(df, LAMBDA r : r.date <= date)
    IN  [i \in 1..Len(part) |-> [part[i] EXCEPT !.dpm = fillna(part[i].dpm)]]

\* date_data = df[df['date'] == date].copy() with the dpm column filled
date_data(df, date) ==
    LET part == SelectSeq(df, LAMBDA r : r.date = date)
    IN  [i \in 1..Len(part) |-> [part[i] EXCEPT !.dpm = fillna(part[i].dpm)]]

\* pd.Timestamp(date): the dict key made of a numpy datetime64
Timestamp(date) == <<"Timestamp", date>>

\* the body of load_and_process_data on a readable file
Build(file, D, R) ==
    LET df == FilterContinent(FilterDate(file, D), R)
        dates == sorted(Unique(DateColumn(df)))
        keys == { Timestamp(dates[i]) : i \in 1..Len(dates) }
    IN  [ok |-> TRUE,
         processed_data |-> [k \in keys |-> date_data(df, k[2])],
         dates |-> dates]

\* read_csv raised: the except clause prints and re-raises
Raised == [ok |-> FALSE, processed_data |-> <<>>, dates |-> <<>>]

load_and_process_data_body(file, canRead, D, R) ==
    IF canRead THEN Build(file, D, R) ELSE Raised

(***************************************************************************)
(* cache.memoize(timeout=TIMEOUT) over the filesystem cache, lines 26-33.  *)
(***************************************************************************)
\* The key memoize derives: the function's name and its call arguments.
MemoKey(fname, args) == <<fname, args>>

\* load_and_process_data takes no parameters: every call has the same key.
CallKey == MemoKey("load_and_process_data", <<>>)

\* a shorter timeout than TIMEOUT
MemoTimeoutHalved == TIMEOUT \div 2

\* the timeout the decorator passes to the cache
MemoTimeout == TIMEOUT

\* CACHE_TYPE 'filesystem': the entries outlive the process
CachePersists == TRUE

NoCache == <<>>

\* an entry is served while its expiry time has not passed
Fresh(store, key, t) == key \in DOMAIN store /\ store[key].expires >= t

Put(store, key, entry) ==
    [k \in DOMAIN store \cup {key} |-> IF k = key THEN entry ELSE store[k]]

(***************************************************************************)
(* The callbacks, lines 199-227.                                           *)
(***************************************************************************)
\* the flag returned as it came
toggle_animation_stuck(n, current_disabled) ==
    IF n = 0 THEN <<TRUE, PlayLabel>>
    ELSE <<current_disabled,
           IF current_disabled THEN PauseLabel ELSE PlayLabel>>

\* toggle_animation(n_clicks, current_disabled) -> (disabled, children)
toggle_animation(n, current_disabled) ==
    IF n = 0 THEN <<TRUE, PlayLabel>>
    ELSE <<~current_disabled,
           IF current_disabled THEN PauseLabel ELSE PlayLabel>>

\* the position stops at the last one instead of wrapping
update_time_slider_nowrap(slider_value, dis) ==
    IF dis THEN [raised |-> FALSE, value |-> slider_value]
    ELSE IF Len(DATES) = 0 THEN [raised |-> TRUE, value |-> slider_value]
    ELSE [raised |-> FALSE,
          value |-> IF slider_value + 1 >= Len(DATES) THEN Len(DATES) - 1
                    ELSE slider_value + 1]

\* the disabled flag not read
update_time_slider_unguarded(slider_value, dis) ==
    IF Len(DATES) = 0 THEN [raised |-> TRUE, value |-> slider_value]
    ELSE [raised |-> FALSE, value |-> (slider_value + 1) % Len(DATES)]

\* update_time_slider(n_intervals, slider_value, disabled); n_intervals is
\* not read.  (slider_value + 1) % 0 raises ZeroDivisionError.
update_time_slider(slider_value, dis) ==
    IF dis THEN [raised |-> FALSE, value |-> slider_value]
    ELSE IF Len(DATES) = 0 THEN [raised |-> TRUE, value |-> slider_value]
    ELSE [raised |-> FALSE, value |-> (slider_value + 1) % Len(DATES)]

NoFigure == [state |-> "none", date |-> 0]
FigureError == [state |-> "raised", date |-> 0]

\* update_map(selected_index): DATES[selected_index] with Python's indexing
\* (a negative index counts from the end, an index out of range raises
\* IndexError), then PROCESSED_DATA[pd.Timestamp(selected_date)] (KeyError
\* when absent).
update_map(selected_index) ==
    LET n == Len(DATES)
    IN  IF selected_index >= n \/ selected_index < -n THEN FigureError
        ELSE LET selected_date ==
                     IF selected_index >= 0 THEN DATES[selected_index + 1]
                     ELSE DATES[n + selected_index + 1]
             IN  IF Timestamp(selected_date) \in DOMAIN PROCESSED_DATA
                 THEN [state |-> "drawn", date |-> selected_date]
                 ELSE FigureError

NoPre == [slider |-> 0, received |-> 0, disabled |-> TRUE, raised |-> FALSE]

(***************************************************************************)
(* Startup: lines 62-65 (PROCESSED_DATA, DATES = load_and_process_data())  *)
(* through the memoizing wrapper, then the layout of lines 124-196.        *)
(***************************************************************************)
Startup ==
    /\ phase = "down"
    /\ LET hit == Fresh(cache, CallKey, now)
           rv == IF hit THEN cache[CallKey].value
                 ELSE load_and_process_data_body(raw, readable, maxDate, excluded)
       IN  /\ ran' = ~hit
           /\ cache' = IF ~hit /\ rv.ok
                       THEN Put(cache, CallKey,
                                [value |-> rv,
                                 expires |-> now + MemoTimeout,
                                 stored |-> now,
                                 builtWith |-> [maxDate |-> maxDate,
                                                excluded |-> excluded]])
                       ELSE cache
           /\ IF rv.ok
              THEN /\ PROCESSED_DATA' = rv.processed_data
                   /\ DATES' = rv.dates
                   /\ phase' = "up"
                   /\ slider' = Len(rv.dates) - 1
              ELSE /\ PROCESSED_DATA' = <<>>
                   /\ DATES' = <<>>
                   /\ phase' = "aborted"
                   /\ slider' = 0
    /\ disabled' = TRUE
    /\ n_clicks' = 0
    /\ label' = PlayLabel
    /\ figure' = NoFigure
    /\ event' = "startup"
    /\ pre' = NoPre
    /\ preCache' = cache
    /\ UNCHANGED <<fileVars, codeVars, now, advances>>

\* The process ends; what is on disk stays.
Shutdown ==
    /\ phase \in {"up", "page", "aborted"}
    /\ phase' = "down"
    /\ PROCESSED_DATA' = <<>>
    /\ DATES' = <<>>
    /\ cache' = IF CachePersists THEN cache ELSE NoCache
    /\ slider' = 0
    /\ disabled' = TRUE
    /\ n_clicks' = 0
    /\ label' = PlayLabel
    /\ figure' = NoFigure
    /\ event' = "shutdown"
    /\ pre' = NoPre
    /\ UNCHANGED <<fileVars, codeVars, now, advances, ran, preCache>>

ClockSteps == {1, TIMEOUT - 1, TIMEOUT}

\* Time passes.
Advance(d) ==
    /\ advances < MaxAdvances
    /\ now' = now + d
    /\ advances' = advances + 1
    /\ event' = "clock"
    /\ UNCHANGED <<fileVars, codeVars, cache, phase, PROCESSED_DATA, DATES, ran,
                   uiVars, pre, preCache>>

DateLiterals == {CUTOFF - 1, CUTOFF}
ContinentLiterals == {Antarctica, "North America"}

\* The literals of lines 41-42 are edited between two runs.
Redeploy(D, R) ==
    /\ phase = "down"
    /\ <<D, R>> # <<maxDate, excluded>>
    /\ maxDate' = D
    /\ excluded' = R
    /\ event' = "redeploy"
    /\ UNCHANGED <<fileVars, cache, now, advances, phase, PROCESSED_DATA, DATES,
                   ran, uiVars, pre, preCache>>

(***************************************************************************)
(* The browser.  A page load shows the layout and fires each callback      *)
(* once; afterwards every click, timer tick and slider drag fires the      *)
(* callbacks that list it as an Input, and a new time-slider value fires   *)
(* update_map.                                                             *)
(***************************************************************************)
PageLoad ==
    /\ phase \in {"up", "page"}
    /\ phase' = "page"
    /\ LET t == toggle_animation(0, TRUE)
           u == update_time_slider(Len(DATES) - 1, TRUE)
       IN  /\ disabled' = t[1]
           /\ label' = t[2]
           /\ slider' = u.value
           /\ figure' = update_map(u.value)
           /\ pre' = [slider |-> Len(DATES) - 1, received |-> Len(DATES) - 1,
                      disabled |-> TRUE, raised |-> u.raised]
    /\ n_clicks' = 0
    /\ event' = "pageload"
    /\ UNCHANGED <<fileVars, codeVars, cache, now, advances, PROCESSED_DATA,
                   DATES, ran, preCache>>

\* A click of play-button: toggle_animation
Click ==
    /\ phase = "page"
    /\ n_clicks < MaxClicks
    /\ n_clicks' = n_clicks + 1
    /\ LET t == toggle_animation(n_clicks + 1, disabled)
       IN  /\ disabled' = t[1]
           /\ label' = t[2]
    /\ event' = "click"
    /\ pre' = [slider |-> slider, received |-> slider, disabled |-> disabled,
               raised |-> FALSE]
    /\ UNCHANGED <<fileVars, codeVars, cache, now, advances, phase,
                   PROCESSED_DATA, DATES, ran, slider, figure, preCache>>

\* What follows a call of update_time_slider: the slider takes the value
\* returned and the map is redrawn; a call that raised updates nothing.
SliderCallback(received, name) ==
    LET u == update_time_slider(received, disabled)
    IN  /\ slider' = IF u.raised THEN received ELSE u.value
        /\ figure' = update_map(IF u.raised THEN received ELSE u.value)
        /\ pre' = [slider |-> slider, received |-> received,
                   disabled |-> disabled, raised |-> u.raised]
        /\ event' = name
        /\ UNCHANGED <<fileVars, codeVars, cache, now, advances, phase,
                       PROCESSED_DATA, DATES, ran, disabled, n_clicks, label,
                       preCache>>

\* interval-component.n_intervals changes: update_time_slider runs with the
\* current slider value and the current disabled flag.
IntervalTick ==
    /\ phase = "page"
    /\ SliderCallback(slider, "tick")

\* The user drags the slider to q (min = 0, max = len(DATES) - 1):
\* update_time_slider runs with q.
Drag(q) ==
    /\ phase = "page"
    /\ q \in 0..(Len(DATES) - 1)
    /\ SliderCallback(q, "drag")

(***************************************************************************)
(* Specifications.                                                         *)
(***************************************************************************)
InitWith(files, canRead) ==
    /\ readable \in canRead
    /\ raw \in IF readable THEN files ELSE {<<>>}
    /\ maxDate = CUTOFF
    /\ excluded = Antarctica
    /\ cache = NoCache
    /\ now = 0
    /\ advances = 0
    /\ phase = "down"
    /\ PROCESSED_DATA = <<>>
    /\ DATES = <<>>
    /\ ran = FALSE
    /\ disabled = TRUE
    /\ slider = 0
    /\ n_clicks = 0
    /\ label = PlayLabel
    /\ figure = NoFigure
    /\ event = "none"
    /\ pre = NoPre
    /\ preCache = NoCache

\* one row per day of a set of days, latest day first
RECURSIVE RowsOfDays(_)
RowsOfDays(S) ==
    IF S = {} THEN <<>>
    ELSE LET d == CHOOSE x \in S : \A y \in S : y <= x
         IN  <<Row(d, RegionUSA, <<0>>)>> \o RowsOfDays(S \ {d})

DashboardFiles == { RowsOfDays(S) : S \in SUBSET Days }

\* The dashboard: one startup, then the browser's events.
Init == InitWith(DashboardFiles, {TRUE})

Next ==
    \/ Startup
    \/ PageLoad
    \/ Click
    \/ IntervalTick
    \/ \E q \in 0..MaxDay : Drag(q)

Spec == Init /\ [][Next]_vars

\* The builder alone, on every file of at most MaxRows rows dated the day
\* before the cutoff, the cutoff or the day after.
BuilderDays == (CUTOFF - 1)..(CUTOFF + 1)
BuilderRows == { r \in Rows : r.date \in BuilderDays }

InitBuild == InitWith(SeqsUpTo(BuilderRows, MaxRows), BOOLEAN)

NextBuild == Startup

SpecBuild == InitBuild /\ [][NextBuild]_vars

\* The cache across restarts.
CacheFiles ==
    { <<Row(CUTOFF, RegionUSA, <<5>>)>>,
      <<Row(CUTOFF - 1, RegionUSA, <<0>>), Row(CUTOFF, RegionATA, Absent)>>,
      <<Row(CUTOFF, RegionAggregate, Absent), Row(CUTOFF, RegionUSA, <<5>>)>> }

InitCache == InitWith(CacheFiles, {TRUE})

NextCache ==
    \/ Startup
    \/ Shutdown
    \/ \E d \in ClockSteps : Advance(d)
    \/ \E D \in DateLiterals, R \in ContinentLiterals : Redeploy(D, R)

SpecCache == InitCache /\ [][NextCache]_vars

(***************************************************************************)
(* Properties.                                                             *)
(***************************************************************************)
N == Len(DATES)

UiEvents == {"pageload", "click", "tick", "drag"}

\* the rows of the file that pass both filters
Kept(r) == r.date <= maxDate /\ r.continent # excluded
KeptRows == SelectSeq(raw, Kept)

SnapshotKeys == DOMAIN PROCESSED_DATA
RowsOf(k) == { PROCESSED_DATA[k][i] : i \in 1..Len(PROCESSED_DATA[k]) }
AllSnapshotRows == UNION { RowsOf(k) : k \in SnapshotKeys }

\* C1: while Playing, a tick moves the slider from p to p + 1, and from the
\* last position N - 1 to 0, for every N >= 1 and p in 0..N-1.
C1_TickAdvancesAndWraps ==
    (event = "tick" /\ ~pre.disabled /\ N >= 1 /\ pre.slider \in 0..(N - 1))
        => /\ ~pre.raised
           /\ slider = IF pre.slider = N - 1 THEN 0 ELSE pre.slider + 1

\* C1's case: five dates, position 4, one tick while Playing gives 0.
C1_Witness ==
    /\ event = "tick"
    /\ ~pre.disabled
    /\ N = 5
    /\ pre.slider = 4
    /\ slider = 0

\* C2: while Paused a tick leaves the slider where it was, and a position
\* that changed while Paused was changed by a drag, to the position dragged to.
C2_PausePriority ==
    (phase = "page" /\ event \in UiEvents /\ pre.disabled)
        => /\ event = "tick" => slider = pre.slider
           /\ slider # pre.slider => (event = "drag" /\ slider = pre.received)

\* C2's case: a tick arrives while Paused, at a position a drag had set.
C2_Witness ==
    /\ event = "tick"
    /\ pre.disabled
    /\ n_clicks = 2
    /\ N >= 2
    /\ slider = 0
    /\ slider = pre.slider

\* C3: the control starts Paused, every click flips it (Playing exactly after
\* an odd number of clicks) and no tick or drag changes it.
C3_ToggleParity ==
    phase = "page"
        => /\ disabled <=> (n_clicks % 2 = 0)
           /\ label = IF disabled THEN PlayLabel ELSE PauseLabel
           /\ event = "pageload" => (disabled /\ n_clicks = 0)
           /\ event = "click" => disabled = ~pre.disabled
           /\ event \in {"tick", "drag"} => disabled = pre.disabled

\* C3's case: three clicks, Playing, and a tick that left it Playing.
C3_Witness ==
    /\ phase = "page"
    /\ n_clicks = 3
    /\ ~disabled
    /\ event = "tick"

\* C4 as stated: no date of the index is later than the maximum date and no
\* snapshot holds a record whose region (its name, location) is the excluded one.
C4_NoExcludedRegionName ==
    phase = "up"
        => /\ \A i \in 1..N : DATES[i] <= maxDate
           /\ \A r \in AllSnapshotRows : r.location # excluded

\* C4 amended: no date of the index is later than the maximum date, no
\* snapshot holds a record dated later or one whose continent is the excluded
\* one, and the index holds exactly the dates of the rows that pass both
\* filters (the filters come before the partition).
C4_FilterByDateAndContinent ==
    phase = "up"
        => /\ \A i \in 1..N : DATES[i] <= maxDate
           /\ \A r \in AllSnapshotRows : r.date <= maxDate /\ r.continent # excluded
           /\ { DATES[i] : i \in 1..N } = { KeptRows[i].date : i \in 1..Len(KeptRows) }
           /\ \A k \in SnapshotKeys : PROCESSED_DATA[k] # <<>>

\* C4's case: the file holds a row past the maximum date, a row of the
\* excluded continent and a row that stays.
C4_Witness ==
    /\ phase = "up"
    /\ \E i \in 1..Len(raw) : raw[i].date > maxDate
    /\ \E i \in 1..Len(raw) : raw[i].continent = excluded /\ raw[i].date <= maxDate
    /\ N = 1

\* C6: when no row passes the filters the builder fails, and it never
\* returns an empty index.
C6_EmptyDataRaises ==
    event = "startup"
        => /\ KeptRows = <<>> => phase = "aborted"
           /\ phase = "up" => N >= 1

\* C7: in every snapshot a record whose deaths-per-million is absent in the
\* file carries -1, a present value is kept (0 stays 0), and no other field
\* differs from the file's row.
C7_Sentinel ==
    phase = "up"
        => \A k \in SnapshotKeys :
              LET src == SelectSeq(KeptRows, LAMBDA r : r.date = k[2])
                  snap == PROCESSED_DATA[k]
              IN  /\ Len(snap) = Len(src)
                  /\ \A i \in 1..Len(src) :
                        /\ src[i].dpm = Absent => snap[i].dpm = <<-1>>
                        /\ src[i].dpm # Absent => snap[i].dpm = src[i].dpm
                        /\ snap[i].date = src[i].date
                        /\ snap[i].iso_code = src[i].iso_code
                        /\ snap[i].location = src[i].location
                        /\ snap[i].continent = src[i].continent

\* C7's case: one snapshot holds a filled-in -1 beside a present 0.
C7_Witness ==
    /\ phase = "up"
    /\ \E k \in SnapshotKeys :
          /\ \E i \in 1..Len(PROCESSED_DATA[k]) : PROCESSED_DATA[k][i].dpm = <<-1>>
          /\ \E i \in 1..Len(PROCESSED_DATA[k]) : PROCESSED_DATA[k][i].dpm = <<0>>
    /\ \E i \in 1..Len(raw) : raw[i].dpm = Absent /\ Kept(raw[i])

UniqueCodes(snap) ==
    \A i, j \in 1..Len(snap) : snap[i].iso_code = snap[j].iso_code => i = j

RawUnique ==
    \A i, j \in 1..Len(raw) :
        (raw[i].date = raw[j].date /\ raw[i].iso_code = raw[j].iso_code) => i = j

\* C8 as stated: from any file, the region codes of a snapshot are unique.
C8_UniqueCodesAlways ==
    phase = "up" => \A k \in SnapshotKeys : UniqueCodes(PROCESSED_DATA[k])

\* C8 amended: when no two rows of the file share date and region code, the
\* region codes of every snapshot are unique.
C8_UniqueCodesPreserved ==
    (phase = "up" /\ RawUnique)
        => \A k \in SnapshotKeys : UniqueCodes(PROCESSED_DATA[k])

\* C8's case: a file without repeated (date, code), one region on two days
\* and two regions on one day.
C8_Witness ==
    /\ phase = "up"
    /\ RawUnique
    /\ N = 2
    /\ \E k \in SnapshotKeys : Len(PROCESSED_DATA[k]) = 2
    /\ \E i, j \in 1..Len(raw) : i # j /\ raw[i].iso_code = raw[j].iso_code

\* C5: whenever a call is served from the cache, the entry was built with
\* the excluded region now in effect (a change of the excluded region is a
\* different key and a miss).
C5_HitOnlyForSameInputs ==
    (event = "startup" /\ ~ran)
        => cache[CallKey].builtWith.excluded = excluded

\* C9: a call that finds an entry of age at most TIMEOUT returns the stored
\* result without running the builder and leaves the entry; a call that
\* finds it older runs the builder and replaces the entry.
C9_HitUntilExpiry ==
    (event = "startup" /\ CallKey \in DOMAIN preCache)
        => LET e == preCache[CallKey]
           IN  IF now - e.stored <= TIMEOUT
               THEN /\ ~ran
                    /\ PROCESSED_DATA = e.value.processed_data
                    /\ DATES = e.value.dates
                    /\ cache = preCache
               ELSE /\ ran
                    /\ cache[CallKey].stored = now
                    /\ cache[CallKey].value = Build(raw, maxDate, excluded)
                    /\ PROCESSED_DATA = cache[CallKey].value.processed_data

\* C9's case: a restart one second after the entry's age passed TIMEOUT,
\* which rebuilt.
C9_Witness ==
    /\ event = "startup"
    /\ CallKey \in DOMAIN preCache
    /\ now - preCache[CallKey].stored = TIMEOUT + 1
    /\ ran
    /\ cache[CallKey].stored = now

\* C10: the slider position is in [0, N-1], update_map finds the snapshot of
\* DATES[position], and the keys of PROCESSED_DATA are the dates of the
\* ascending, duplicate-free index.
C10_SliderAlwaysMapsToSnapshot ==
    phase = "page"
        => /\ slider \in 0..(N - 1)
           /\ figure.state = "drawn"
           /\ figure.date = DATES[slider + 1]
           /\ SnapshotKeys = { Timestamp(DATES[i]) : i \in 1..N }
           /\ \A i \in 1..(N - 1) : DATES[i] < DATES[i + 1]

====
